---- MODULE Spec2Model ----
(***************************************************************************)
(* Model of src/src/App.tsx: the student CRUD form (React component App).  *)
(*                                                                         *)
(* Texts are sequences of one-character strings.  JavaScript values that   *)
(* can sit in an array slot are records with a `kind` field: an object (a  *)
(* Student), a hole of a sparse array, the value undefined, the value null.*)
(* The text kept under "students" in localStorage is a sequence of JSON    *)
(* tokens; each token is a record [t, v] whose v is the token's characters.*)
(***************************************************************************)
EXTENDS Integers, Sequences, FiniteSets, TLC

VARIABLES
    students,         \* useState<Student[]>            App.tsx:12
    formData,         \* useState<Student>              App.tsx:13
    editIndex,        \* useState<number | null>        App.tsx:19
    search,           \* useState<string>               App.tsx:20
    darkMode,         \* useState<boolean>              App.tsx:21
    currentPage,      \* useState(1)                    App.tsx:26
    localStorage,     \* the entries "students" and "darkMode"
    pendingStudents,  \* the setStudents queued by the load effect
    pc,               \* "mounted", "loaded", "saved", "running", "crashed"
    lastEvent,        \* history: the event that produced this state
    prevSession       \* history: what the previous session saved

vars == <<students, formData, editIndex, search, darkMode, currentPage,
          localStorage, pendingStudents, pc, lastEvent, prevSession>>

-----------------------------------------------------------------------------
(* Bounds *)

MaxLen == 3          \* an add is taken only below this list length
MaxPage == 4         \* the Next button is taken only below this page number
MaxStartLen == 6     \* longest list a previous session saved, in StartupSpec
MaxPagedLen == 12    \* longest list a previous session saved, in PagingSpec
MaxDamagedLen == 2   \* longest list whose saved text was cut short, in DamagedSpec

studentsPerPage == 5

-----------------------------------------------------------------------------
(* Texts *)

Al == <<"A", "l">>
Bo == <<"B", "o">>
CS == <<"C", "S">>
Empty == <<>>

NameInputs == {Empty, Al, Bo}
DeptInputs == {Empty, CS}
AgeInputs == {<<"0">>, <<"2", "0">>}
MarksInputs == {<<"-", "1">>, <<"1", "0", "1">>, Empty}
SearchInputs == {Empty, <<"a">>}

\* String.prototype.toLowerCase on the letters in use
LowerChar(c) ==
    CASE c = "A" -> "a"
      [] c = "B" -> "b"
      [] c = "C" -> "c"
      [] c = "S" -> "s"
      [] OTHER -> c

toLowerCase(s) == [i \in 1..Len(s) |-> LowerChar(s[i])]

\* String.prototype.includes
includes(s, q) ==
    \E i \in 0..(Len(s) - Len(q)) : SubSeq(s, i + 1, i + Len(q)) = q

DigitChars == <<"0", "1", "2", "3", "4", "5", "6", "7", "8", "9">>

DigitValue(c) == (CHOOSE d \in 1..10 : DigitChars[d] = c) - 1

RECURSIVE DigitsToNat(_)
DigitsToNat(s) ==
    IF s = <<>> THEN 0
    ELSE DigitsToNat(SubSeq(s, 1, Len(s) - 1)) * 10 + DigitValue(s[Len(s)])

\* Number(value) on the value of an <input type="number">: "" gives 0
Number(s) ==
    IF s = <<>> THEN 0
    ELSE IF Head(s) = "-" THEN 0 - DigitsToNat(Tail(s))
    ELSE DigitsToNat(s)

RECURSIVE NatToDigits(_)
NatToDigits(n) ==
    IF n < 10 THEN <<DigitChars[n + 1]>>
    ELSE NatToDigits(n \div 10) \o <<DigitChars[(n % 10) + 1]>>

\* the decimal text JSON.stringify writes for an integer
NumberToText(n) == IF n < 0 THEN <<"-">> \o NatToDigits(0 - n) ELSE NatToDigits(n)

\* String(darkMode)
BooleanToText(b) == IF b THEN <<"t", "r", "u", "e">> ELSE <<"f", "a", "l", "s", "e">>

-----------------------------------------------------------------------------
(* JavaScript values *)

Student(n, d, a, m) == [kind |-> "object", name |-> n, dept |-> d, age |-> a, marks |-> m]

NonObject(k) == [kind |-> k, name |-> <<>>, dept |-> <<>>, age |-> 0, marks |-> 0]
Hole == NonObject("hole")              \* an absent slot of a sparse array
Undefined == NonObject("undefined")
Null == NonObject("null")

NoIndex == 0 - 1                       \* editIndex === null

BlankForm == Student(Empty, Empty, 0, 0)

\* students[i] with a 0-based i: a hole and a slot past the end read as undefined
At(list, i) ==
    IF i < 0 \/ i >= Len(list) THEN Undefined
    ELSE IF list[i + 1].kind = "hole" THEN Undefined
    ELSE list[i + 1]

\* [...list]: the iterator yields undefined for a hole
Spread(list) == [i \in 1..Len(list) |-> At(list, i - 1)]

RECURSIVE Holes(_)
Holes(n) == IF n <= 0 THEN <<>> ELSE Append(Holes(n - 1), Hole)

\* updated[index] = value on a dense array, 0-based index
AssignIndex(list, index, value) ==
    IF index < Len(list) THEN [list EXCEPT ![index + 1] = value]
    ELSE list \o Holes(index - Len(list)) \o <<value>>

RECURSIVE FilterIndexNot(_, _, _)
\* list.filter((_, i) => i !== index), i counting from `from`: filter visits no hole
FilterIndexNot(list, index, from) ==
    IF list = <<>> THEN <<>>
    ELSE IF Head(list).kind = "hole" \/ from = index
         THEN FilterIndexNot(Tail(list), index, from + 1)
         ELSE <<Head(list)>> \o FilterIndexNot(Tail(list), index, from + 1)

\* slice with the end index taken as inclusive
sliceInclusiveEnd(list, start, end) ==
    SubSeq(list, (IF start < Len(list) THEN start ELSE Len(list)) + 1,
                 IF end + 1 < Len(list) THEN end + 1 ELSE Len(list))

\* Array.prototype.slice(start, end) for 0 <= start <= end
slice(list, start, end) ==
    SubSeq(list, (IF start < Len(list) THEN start ELSE Len(list)) + 1,
                 IF end < Len(list) THEN end ELSE Len(list))

-----------------------------------------------------------------------------
(* JSON *)

Tok(t, v) == [t |-> t, v |-> v]
Punct(t) == Tok(t, <<>>)

KeyName == <<"n", "a", "m", "e">>
KeyDept == <<"d", "e", "p", "t">>
KeyAge == <<"a", "g", "e">>
KeyMarks == <<"m", "a", "r", "k", "s">>

\* JSON.stringify of one array slot: an object, or null for a hole / undefined / null
StringifyElement(e) ==
    IF e.kind = "object"
    THEN << Punct("{"),
            Tok("string", KeyName), Punct(":"), Tok("string", e.name), Punct(","),
            Tok("string", KeyDept), Punct(":"), Tok("string", e.dept), Punct(","),
            Tok("string", KeyAge), Punct(":"), Tok("number", NumberToText(e.age)), Punct(","),
            Tok("string", KeyMarks), Punct(":"), Tok("number", NumberToText(e.marks)),
            Punct("}") >>
    ELSE << Punct("null") >>

RECURSIVE StringifyElements(_)
StringifyElements(list) ==
    IF list = <<>> THEN <<>>
    ELSE IF Len(list) = 1 THEN StringifyElement(list[1])
    ELSE StringifyElement(Head(list)) \o <<Punct(",")>> \o StringifyElements(Tail(list))

\* JSON.stringify(students)
JSONstringify(list) == <<Punct("[")>> \o StringifyElements(list) \o <<Punct("]")>>

ObjectTokens == 17

\* the tokens toks[1..17] are an object with the four Student members
IsObjectAt(toks) ==
    /\ Len(toks) >= ObjectTokens
    /\ toks[1] = Punct("{")
    /\ toks[2] = Tok("string", KeyName) /\ toks[3] = Punct(":") /\ toks[4].t = "string"
    /\ toks[5] = Punct(",")
    /\ toks[6] = Tok("string", KeyDept) /\ toks[7] = Punct(":") /\ toks[8].t = "string"
    /\ toks[9] = Punct(",")
    /\ toks[10] = Tok("string", KeyAge) /\ toks[11] = Punct(":") /\ toks[12].t = "number"
    /\ toks[13] = Punct(",")
    /\ toks[14] = Tok("string", KeyMarks) /\ toks[15] = Punct(":") /\ toks[16].t = "number"
    /\ toks[17] = Punct("}")

\* an object read with age and marks exchanged
ObjectAtSwapped(toks) ==
    Student(toks[4].v, toks[8].v, Number(toks[16].v), Number(toks[12].v))

ObjectAt(toks) == Student(toks[4].v, toks[8].v, Number(toks[12].v), Number(toks[16].v))

SyntaxError == [ok |-> FALSE, value |-> <<>>]
Parsed(v) == [ok |-> TRUE, value |-> v]

RECURSIVE ParseElements(_, _)
\* toks starts at an array element; acc holds the elements read so far
ParseElements(toks, acc) ==
    LET isNull == toks # <<>> /\ toks[1] = Punct("null")
        isObj == IsObjectAt(toks)
        elem == IF isNull THEN Null ELSE ObjectAt(toks)
        rest == IF isNull THEN Tail(toks) ELSE SubSeq(toks, ObjectTokens + 1, Len(toks))
    IN  IF ~(isNull \/ isObj) THEN SyntaxError
        ELSE IF rest = <<Punct("]")>> THEN Parsed(Append(acc, elem))
        ELSE IF Len(rest) > 1 /\ rest[1] = Punct(",")
             THEN ParseElements(Tail(rest), Append(acc, elem))
        ELSE SyntaxError

\* JSON.parse on a text that is an array of Student objects and nulls;
\* any other token sequence of the model is a SyntaxError
JSONparse(toks) ==
    IF toks = <<>> \/ toks[1] # Punct("[") THEN SyntaxError
    ELSE IF toks = <<Punct("["), Punct("]")>> THEN Parsed(<<>>)
    ELSE ParseElements(Tail(toks), <<>>)

-----------------------------------------------------------------------------
(* localStorage *)

NoItem == [present |-> FALSE, text |-> <<>>]      \* getItem returns null
Item(text) == [present |-> TRUE, text |-> text]

\* the save effect: both setItem calls
SaveEffect(list, flag) ==
    [students |-> Item(JSONstringify(list)), darkMode |-> Item(BooleanToText(flag))]

FreshStorage == [students |-> NoItem, darkMode |-> NoItem]

-----------------------------------------------------------------------------
(* Render: the values computed in the body of App *)

\* a filter callback that compares without lowering the case
MatchesSearchCaseSensitive(s, q) ==
    \/ includes(s.name, q)
    \/ includes(s.dept, q)

\* the callback of the search filter on one element
MatchesSearch(s, q) ==
    \/ includes(toLowerCase(s.name), toLowerCase(q))
    \/ includes(toLowerCase(s.dept), toLowerCase(q))

\* students.filter(...): no hole is visited
Filter(list, q) ==
    SelectSeq(list, LAMBDA s : s.kind = "object" /\ MatchesSearch(s, q))

\* the render throws a TypeError: s.name on undefined / null, or formData.name on undefined
RenderThrows(list, form) ==
    \/ form.kind # "object"
    \/ \E i \in 1..Len(list) : list[i].kind \in {"undefined", "null"}

filteredStudents == Filter(students, search)

\* the pagination logic, as functions of the page number
IndexOfLast(page) == page * studentsPerPage
IndexOfFirst(page) == IndexOfLast(page) - studentsPerPage
Window(list, page) == slice(list, IndexOfFirst(page), IndexOfLast(page))

indexOfLast == IndexOfLast(currentPage)
indexOfFirst == IndexOfFirst(currentPage)
currentStudents == Window(filteredStudents, currentPage)

\* Math.ceil(n / studentsPerPage)
CeilPages(n) == (n + studentsPerPage - 1) \div studentsPerPage
totalPages == CeilPages(Len(filteredStudents))

\* the indices the rendered rows pass to handleEdit / handleDelete
\* row indices counted from the end of the window
RowIndicesFromLast == {indexOfLast + index : index \in 0..(Len(currentStudents) - 1)}

RowIndices == {indexOfFirst + index : index \in 0..(Len(currentStudents) - 1)}

\* validation that lets age 0 through
isValidAgeZero(form) ==
    IF form.name = <<>> \/ form.dept = <<>> THEN FALSE
    ELSE IF form.age < 0 THEN FALSE
    ELSE IF form.marks < 0 \/ form.marks > 100 THEN FALSE
    ELSE TRUE

isValid(form) ==
    IF form.name = <<>> \/ form.dept = <<>> THEN FALSE
    ELSE IF form.age <= 0 THEN FALSE
    ELSE IF form.marks < 0 \/ form.marks > 100 THEN FALSE
    ELSE TRUE

-----------------------------------------------------------------------------
(* Initial state *)

NoPending == [set |-> FALSE, value |-> <<>>]

\* records a previous session may have saved
SavedStudents == {Student(Al, CS, 20, 0), Student(Bo, CS, 7, 100)}

RECURSIVE ListsUpTo(_, _)
ListsUpTo(S, n) ==
    IF n = 0 THEN {<<>>}
    ELSE LET shorter == ListsUpTo(S, n - 1)
         IN  shorter \cup {Append(l, x) : l \in {k \in shorter : Len(k) = n - 1}, x \in S}

Fresh == [fresh |-> TRUE, students |-> <<>>, darkMode |-> FALSE]
Session(list, flag) == [fresh |-> FALSE, students |-> list, darkMode |-> flag]

StorageAfter(session) ==
    IF session.fresh THEN FreshStorage ELSE SaveEffect(session.students, session.darkMode)

\* the main specification starts at the first session, with neither key stored:
\* every list an earlier session could have saved is then built by adds
InitSessions == {Fresh}

\* the state after the first render of App, before its effects run
InitFrom(sessions) ==
    /\ prevSession \in sessions
    /\ localStorage = StorageAfter(prevSession)
    /\ students = <<>>
    /\ formData = BlankForm
    /\ editIndex = NoIndex
    /\ search = Empty
    /\ darkMode = (localStorage.darkMode.present
                     /\ localStorage.darkMode.text = BooleanToText(TRUE))
    /\ currentPage = 1
    /\ pendingStudents = NoPending
    /\ pc = "mounted"
    /\ lastEvent = "mount"

Init == InitFrom(InitSessions)

-----------------------------------------------------------------------------
(* Startup: the two effects of the mount, then the re-render *)

\* useEffect(() => {...}, []) : load
LoadEffect ==
    /\ pc = "mounted"
    /\ LET stored == localStorage.students
           truthy == stored.present /\ stored.text # <<>>
           parsed == JSONparse(stored.text)
       IN  IF ~truthy THEN pc' = "loaded" /\ UNCHANGED pendingStudents
           ELSE IF ~parsed.ok THEN pc' = "crashed" /\ UNCHANGED pendingStudents
           ELSE /\ pendingStudents' = [set |-> TRUE, value |-> parsed.value]
                /\ pc' = "loaded"
    /\ lastEvent' = "load"
    /\ UNCHANGED <<students, formData, editIndex, search, darkMode, currentPage,
                   localStorage, prevSession>>

\* useEffect(() => {...}, [students, darkMode]) on mount: students is still []
SaveEffectOnMount ==
    /\ pc = "loaded"
    /\ localStorage' = SaveEffect(students, darkMode)
    /\ pc' = "saved"
    /\ lastEvent' = "save"
    /\ UNCHANGED <<students, formData, editIndex, search, darkMode, currentPage,
                   pendingStudents, prevSession>>

\* the re-render for the queued setStudents, and the save effect it triggers
Rerender ==
    /\ pc = "saved"
    /\ IF pendingStudents.set
       THEN /\ students' = pendingStudents.value
            /\ IF RenderThrows(students', formData)
               THEN pc' = "crashed" /\ UNCHANGED localStorage
               ELSE pc' = "running" /\ localStorage' = SaveEffect(students', darkMode)
       ELSE pc' = "running" /\ UNCHANGED <<students, localStorage>>
    /\ pendingStudents' = NoPending
    /\ lastEvent' = "render"
    /\ UNCHANGED <<formData, editIndex, search, darkMode, currentPage, prevSession>>

-----------------------------------------------------------------------------
(* Events of the running component.  Each action is the handler, the       *)
(* re-render it causes and the effects of that render.                     *)

\* the render after a handler and, when it does not throw, the save effect
\* if students or darkMode changed identity
Commit(list, form, flag, depsChanged) ==
    IF RenderThrows(list, form)
    THEN pc' = "crashed" /\ UNCHANGED localStorage
    ELSE /\ pc' = "running"
         /\ localStorage' = IF depsChanged THEN SaveEffect(list, flag) ELSE localStorage

\* [name]: name === "age" || name === "marks" ? Number(value) : value
ChangedForm(form, name, value) ==
    CASE name = "name" -> [form EXCEPT !.name = value]
      [] name = "dept" -> [form EXCEPT !.dept = value]
      [] name = "age" -> [form EXCEPT !.age = Number(value)]
      [] name = "marks" -> [form EXCEPT !.marks = Number(value)]

handleChange(name, value) ==
    /\ pc = "running"
    /\ formData' = ChangedForm(formData, name, value)
    /\ lastEvent' = "change"
    /\ UNCHANGED <<students, editIndex, search, darkMode, currentPage,
                   pendingStudents, prevSession>>
    /\ Commit(students, formData', darkMode, FALSE)

\* a replace that writes one slot too far
ReplacedOffByOne(list, index, form) == AssignIndex(Spread(list), index + 1, form)

\* const updated = [...students]; updated[editIndex] = formData
Replaced(list, index, form) == AssignIndex(Spread(list), index, form)

\* an add at the front of the list
Prepended(list, form) == <<form>> \o Spread(list)

\* [...students, formData]
Appended(list, form) == Append(Spread(list), form)

handleSubmit ==
    /\ pc = "running"
    /\ IF ~isValid(formData)
       THEN /\ lastEvent' = "reject"
            /\ UNCHANGED <<students, formData, editIndex, localStorage, pc>>
       ELSE /\ IF editIndex # NoIndex
               THEN /\ students' = Replaced(students, editIndex, formData)
                    /\ editIndex' = NoIndex
                    /\ lastEvent' = IF editIndex < Len(students) THEN "update"
                                    ELSE "update-past-end"
               ELSE /\ Len(students) < MaxLen
                    /\ students' = Appended(students, formData)
                    /\ lastEvent' = "add"
                    /\ UNCHANGED editIndex
            /\ formData' = BlankForm
            /\ Commit(students', formData', darkMode, TRUE)
    /\ UNCHANGED <<search, darkMode, currentPage, pendingStudents, prevSession>>

\* a delete that does not wait for the answer of window.confirm
handleDeleteUnasked(index, confirmed) ==
    /\ pc = "running"
    /\ index \in RowIndices
    /\ students' = FilterIndexNot(students, index, 0)
    /\ lastEvent' = IF confirmed THEN "delete" ELSE "decline"
    /\ UNCHANGED <<formData, editIndex, search, darkMode, currentPage,
                   pendingStudents, prevSession>>
    /\ Commit(students', formData, darkMode, TRUE)

handleDelete(index, confirmed) ==
    /\ pc = "running"
    /\ index \in RowIndices
    /\ IF confirmed
       THEN /\ students' = FilterIndexNot(students, index, 0)
            /\ lastEvent' = "delete"
       ELSE /\ lastEvent' = "decline"
            /\ UNCHANGED students
    /\ UNCHANGED <<formData, editIndex, search, darkMode, currentPage,
                   pendingStudents, prevSession>>
    /\ Commit(students', formData, darkMode, confirmed)

handleEdit(index) ==
    /\ pc = "running"
    /\ index \in RowIndices
    /\ formData' = At(students, index)
    /\ editIndex' = index
    /\ lastEvent' = "edit"
    /\ UNCHANGED <<students, search, darkMode, currentPage, pendingStudents, prevSession>>
    /\ Commit(students, formData', darkMode, FALSE)

\* a search handler that keeps the matches as the list
setSearchStoringMatches(value) ==
    /\ pc = "running"
    /\ search' = value
    /\ students' = Filter(students, value)
    /\ lastEvent' = "search"
    /\ UNCHANGED <<formData, editIndex, darkMode, currentPage,
                   pendingStudents, prevSession>>
    /\ Commit(students', formData, darkMode, TRUE)

\* onChange of the search input
setSearch(value) ==
    /\ pc = "running"
    /\ search' = value
    /\ lastEvent' = "search"
    /\ UNCHANGED <<students, formData, editIndex, darkMode, currentPage,
                   pendingStudents, prevSession>>
    /\ Commit(students, formData, darkMode, FALSE)

\* the Prev button: rendered when totalPages > 1, disabled on page 1
PrevPage ==
    /\ pc = "running"
    /\ totalPages > 1
    /\ currentPage # 1
    /\ currentPage' = currentPage - 1
    /\ lastEvent' = "prev"
    /\ UNCHANGED <<students, formData, editIndex, search, darkMode,
                   pendingStudents, prevSession>>
    /\ Commit(students, formData, darkMode, FALSE)

\* the Next button: rendered when totalPages > 1, disabled on page totalPages
NextPage ==
    /\ pc = "running"
    /\ totalPages > 1
    /\ currentPage # totalPages
    /\ currentPage < MaxPage
    /\ currentPage' = currentPage + 1
    /\ lastEvent' = "next"
    /\ UNCHANGED <<students, formData, editIndex, search, darkMode,
                   pendingStudents, prevSession>>
    /\ Commit(students, formData, darkMode, FALSE)

\* a toggle whose new flag no save effect writes
ToggleDarkModeUnsaved ==
    /\ pc = "running"
    /\ darkMode' = ~darkMode
    /\ lastEvent' = "toggle"
    /\ UNCHANGED <<students, formData, editIndex, search, currentPage,
                   pendingStudents, prevSession>>
    /\ Commit(students, formData, darkMode', FALSE)

\* the dark-toggle button: setDarkMode((prev) => !prev)
ToggleDarkMode ==
    /\ pc = "running"
    /\ darkMode' = ~darkMode
    /\ lastEvent' = "toggle"
    /\ UNCHANGED <<students, formData, editIndex, search, currentPage,
                   pendingStudents, prevSession>>
    /\ Commit(students, formData, darkMode', TRUE)

\* the form, the list operations, the search box and the dark-mode toggle
Next ==
    \/ LoadEffect
    \/ SaveEffectOnMount
    \/ Rerender
    \/ \E value \in NameInputs : handleChange("name", value)
    \/ \E value \in DeptInputs : handleChange("dept", value)
    \/ \E value \in AgeInputs : handleChange("age", value)
    \/ \E value \in MarksInputs : handleChange("marks", value)
    \/ handleSubmit
    \/ \E index \in 0..MaxLen, confirmed \in BOOLEAN : handleDelete(index, confirmed)
    \/ \E index \in 0..MaxLen : handleEdit(index)
    \/ \E value \in SearchInputs : setSearch(value)
    \/ ToggleDarkMode

Spec == Init /\ [][Next]_vars

-----------------------------------------------------------------------------
(* Startup alone, from every list a previous session may have saved *)

StartupSessions ==
    {Fresh} \cup {Session(list, flag) :
                    list \in ListsUpTo(SavedStudents, MaxStartLen), flag \in BOOLEAN}

StartupInit == InitFrom(StartupSessions)

StartupNext == LoadEffect \/ SaveEffectOnMount \/ Rerender

StartupSpec == StartupInit /\ [][StartupNext]_vars

-----------------------------------------------------------------------------
(* Startup over a store no session left whole: the "students" entry is absent
   or holds the beginning of a saved text, the "darkMode" entry is absent or
   holds any text *)

\* texts the "darkMode" entry may hold: the two the app writes, and another
DarkModeTexts == {BooleanToText(TRUE), BooleanToText(FALSE), <<"1">>}

DarkModeItems == {NoItem} \cup {Item(text) : text \in DarkModeTexts}

\* the first cut tokens of the text saved for list
CutShort(list, cut) == SubSeq(JSONstringify(list), 1, cut)

\* what getItem("darkMode") === "true" gives over the entry dark
ReadsDark(dark) == dark.present /\ dark.text = BooleanToText(TRUE)

\* the state after the first render of App over such a store
DamagedInit ==
    /\ \E dark \in DarkModeItems :
         \/ /\ prevSession = [Fresh EXCEPT !.darkMode = ReadsDark(dark)]
            /\ localStorage = [students |-> NoItem, darkMode |-> dark]
         \/ \E list \in ListsUpTo(SavedStudents, MaxDamagedLen) :
              \E cut \in 0..(Len(JSONstringify(list)) - 1) :
                 /\ prevSession = Session(list, ReadsDark(dark))
                 /\ localStorage = [students |-> Item(CutShort(list, cut)),
                                    darkMode |-> dark]
    /\ students = <<>>
    /\ formData = BlankForm
    /\ editIndex = NoIndex
    /\ search = Empty
    /\ darkMode = ReadsDark(localStorage.darkMode)
    /\ currentPage = 1
    /\ pendingStudents = NoPending
    /\ pc = "mounted"
    /\ lastEvent = "mount"

DamagedNext == LoadEffect \/ SaveEffectOnMount \/ Rerender

DamagedSpec == DamagedInit /\ [][DamagedNext]_vars

-----------------------------------------------------------------------------
(* The table of a long list: rows, search box and pagination controls *)

RECURSIVE Alternating(_)
\* Al, Bo, Al, ... : n saved records
Alternating(n) ==
    IF n = 0 THEN <<>>
    ELSE Append(Alternating(n - 1),
                IF n % 2 = 1 THEN Student(Al, CS, 20, 0) ELSE Student(Bo, CS, 7, 100))

PagingSessions == {Session(Alternating(n), FALSE) : n \in 0..MaxPagedLen}

\* queries typed over the long list: none, one met by a name, one met by the dept
PagingSearchInputs == SearchInputs \cup {<<"s">>}

PagingInit == InitFrom(PagingSessions)

PagingNext ==
    \/ LoadEffect
    \/ SaveEffectOnMount
    \/ Rerender
    \/ \E index \in 0..MaxPagedLen, confirmed \in BOOLEAN : handleDelete(index, confirmed)
    \/ \E value \in PagingSearchInputs : setSearch(value)
    \/ PrevPage
    \/ NextPage

PagingSpec == PagingInit /\ [][PagingNext]_vars

-----------------------------------------------------------------------------
(* Vocabulary of the properties *)

\* a record with non-empty name, non-empty dept, age > 0 and 0 <= marks <= 100
ValidRecord(r) ==
    /\ r.kind = "object"
    /\ Len(r.name) > 0
    /\ Len(r.dept) > 0
    /\ r.age > 0
    /\ r.marks >= 0
    /\ r.marks <= 100

AllValid(list) == \A i \in 1..Len(list) : ValidRecord(list[i])

\* the two lists read the same at every index below n
SamePrefix(old, new, n) == \A j \in 0..(n - 1) : At(new, j) = At(old, j)

Max(a, b) == IF a >= b THEN a ELSE b

-----------------------------------------------------------------------------
(* C1 *)

\* C1: every element of the in-memory students list, and so of the list saved
\* under "students", is a record with non-empty name, non-empty dept, age > 0
\* and 0 <= marks <= 100.
C1_EveryRecordValid ==
    /\ AllValid(students)
    /\ (localStorage.students.present /\ JSONparse(localStorage.students.text).ok
          => AllValid(JSONparse(localStorage.students.text).value))

-----------------------------------------------------------------------------
(* C2 *)

\* C2: a submit whose form candidate fails validation changes no state: the
\* students list, the stored list, the edit index and the form contents are the
\* same after the submit as before it, in the Idle and in the Editing state.
C2_InvalidSubmitChangesNothing ==
    [][(handleSubmit /\ ~ValidRecord(formData))
         => UNCHANGED <<students, localStorage, editIndex, formData, search,
                        darkMode, currentPage, pc>>]_vars

\* a rejected submit happened while a record was being edited
C2_Witness ==
    /\ lastEvent = "reject"
    /\ editIndex # NoIndex
    /\ Len(students) > 0
    /\ formData # BlankForm

-----------------------------------------------------------------------------
(* C3 *)

\* C3: after every accepted add, accepted update, confirmed delete and
\* dark-mode toggle the value stored under "students" is the serialization of
\* the current list and the value under "darkMode" the text of the current
\* flag: no accepted mutation is left unsaved.
C3_EveryMutationSaved ==
    lastEvent \in {"add", "update", "update-past-end", "delete", "toggle"}
        => localStorage = SaveEffect(students, darkMode)

-----------------------------------------------------------------------------
(* C4 *)

\* C4: a session's startup, run to completion over what an earlier session
\* saved, ends with an in-memory list and flag equal to the saved ones, field
\* for field and in the same order, and with the backing store still holding them.
C4_StartupRoundTrip ==
    /\ pc # "crashed"
    /\ (pc = "running" /\ ~prevSession.fresh)
         => /\ students = prevSession.students
            /\ darkMode = prevSession.darkMode
            /\ localStorage = SaveEffect(prevSession.students, prevSession.darkMode)

\* a startup completed over a saved list that holds both kinds of saved record
C4_Witness ==
    /\ pc = "running"
    /\ lastEvent = "render"
    /\ prevSession.darkMode
    /\ Len(prevSession.students) >= 3
    /\ \E i, j \in 1..Len(students) : students[i].marks = 100 /\ students[j].marks = 0

-----------------------------------------------------------------------------
(* C5 *)

\* C5: in the Idle state a submit with a valid candidate appends it: the new
\* list has length len+1, its last element is the candidate, every element at
\* an index < len is unchanged, the state stays Idle and the form is blank.
C5_IdleSubmitAppends ==
    [][(handleSubmit /\ editIndex = NoIndex /\ ValidRecord(formData))
         => /\ Len(students') = Len(students) + 1
            /\ At(students', Len(students)) = formData
            /\ SamePrefix(students, students', Len(students))
            /\ editIndex' = NoIndex
            /\ formData' = BlankForm]_vars

\* an add onto a list that already held two records
C5_Witness ==
    /\ lastEvent = "add"
    /\ pc = "running"
    /\ Len(students) = 3
    /\ students[1] # students[3]

-----------------------------------------------------------------------------
(* C6 *)

\* C6: in the state Editing(i) with 0 <= i < len a submit with a valid candidate
\* replaces exactly the element at index i: the length is unchanged, every
\* element at another index is unchanged, and the edit session is cleared.
C6_EditSubmitReplaces ==
    [][(handleSubmit /\ editIndex >= 0 /\ editIndex < Len(students)
          /\ ValidRecord(formData))
         => /\ Len(students') = Len(students)
            /\ At(students', editIndex) = formData
            /\ \A j \in 0..(Len(students) - 1) :
                 j # editIndex => At(students', j) = At(students, j)
            /\ editIndex' = NoIndex]_vars

\* an update inside the list, on a list of three records
C6_Witness ==
    /\ lastEvent = "update"
    /\ pc = "running"
    /\ Len(students) = 3
    /\ students[1] # students[2]

-----------------------------------------------------------------------------
(* C7 *)

\* C7: a confirmed delete at index i with 0 <= i < len removes exactly one
\* element: the new list has length len-1, every element at an index j < i is
\* unchanged, and every element at an index j >= i of the new list equals
\* element j+1 of the old list.
C7_DeleteRemovesOne ==
    [][\A index \in 0..MaxLen :
         (handleDelete(index, TRUE) /\ index < Len(students))
           => /\ Len(students') = Len(students) - 1
              /\ SamePrefix(students, students', index)
              /\ \A j \in index..(Len(students) - 2) :
                   At(students', j) = At(students, j + 1)]_vars

-----------------------------------------------------------------------------
(* C8 *)

\* C8: in every reachable state an accepted submit yields a list whose length
\* is len+1 (append) or len (replace) with the untouched elements in order;
\* when the edit index is not within [0, len) the candidate is appended at the end.
C8_SubmitAppendsOrReplaces ==
    [][(handleSubmit /\ ValidRecord(formData))
         => /\ Len(students') \in {Len(students), Len(students) + 1}
            /\ (editIndex < 0 \/ editIndex >= Len(students))
                 => /\ Len(students') = Len(students) + 1
                    /\ At(students', Len(students)) = formData
                    /\ SamePrefix(students, students', Len(students))]_vars

-----------------------------------------------------------------------------
(* C9 *)

\* C9: in every reachable state 1 <= currentPage <= max(1, totalPages), where
\* totalPages = ceil(len(filtered list) / 5).
C9_PageInRange ==
    pc # "crashed" => (1 <= currentPage /\ currentPage <= Max(1, totalPages))

-----------------------------------------------------------------------------
(* C10 *)

RECURSIVE ConcatWindows(_, _, _)
\* the windows of the pages from..to, one after the other
ConcatWindows(list, from, to) ==
    IF from > to THEN <<>>
    ELSE Window(list, from) \o ConcatWindows(list, from + 1, to)

\* the 0-based indices of list that page `page` covers
PageIndices(list, page) ==
    {i \in 0..(Len(list) - 1) : (page - 1) * 5 <= i /\ i < page * 5}

\* C10: for every filtered list the windows of the pages 1..totalPages are
\* pairwise disjoint index ranges, their concatenation in page order is the
\* filtered list, each window has at most 5 elements and none is empty.
C10_WindowsPartition ==
    pc # "crashed" =>
      LET list == filteredStudents
          pages == 1..CeilPages(Len(list))
      IN  /\ ConcatWindows(list, 1, CeilPages(Len(list))) = list
          /\ \A p \in pages :
               /\ Len(Window(list, p)) >= 1
               /\ Len(Window(list, p)) <= 5
               /\ Len(Window(list, p)) = Cardinality(PageIndices(list, p))
               /\ \A k \in 1..Len(Window(list, p)) :
                    Window(list, p)[k] = list[(p - 1) * 5 + k]
          /\ \A p, q \in pages :
               p # q => PageIndices(list, p) \cap PageIndices(list, q) = {}

\* twelve records: page 3 of 3 shows the records at indices 10 and 11
C10_Witness ==
    /\ pc = "running"
    /\ Len(filteredStudents) = 12
    /\ totalPages = 3
    /\ currentPage = 3
    /\ currentStudents = <<filteredStudents[11], filteredStudents[12]>>

-----------------------------------------------------------------------------
(* C11 *)

\* the same letter, whatever the case
SameLetter(a, b) ==
    \/ a = b
    \/ {a, b} \in {{"A", "a"}, {"B", "b"}, {"C", "c"}, {"S", "s"}}

\* q occurs in text, letters compared without case
OccursIn(q, text) ==
    \E k \in 0..(Len(text) - Len(q)) :
        \A i \in 1..Len(q) : SameLetter(q[i], text[k + i])

\* the 1-based positions of the elements of list that name or dept of which hold q
MatchingPositions(list, q) ==
    {i \in 1..Len(list) :
        /\ list[i].kind = "object"
        /\ (OccursIn(q, list[i].name) \/ OccursIn(q, list[i].dept))}

\* sub holds exactly the elements of list at the positions pos, in their order
IsSelection(sub, list, pos) ==
    /\ Len(sub) = Cardinality(pos)
    /\ \A k \in 1..Len(sub) :
         \E i \in pos : /\ Cardinality({j \in pos : j < i}) = k - 1
                        /\ sub[k] = list[i]

\* C11: the filtered sequence contains exactly the elements whose name or dept
\* contains the query as a case-insensitive substring, in their original
\* relative order; the empty query yields the whole list unchanged in order.
C11_FilterSelectsMatches ==
    pc # "crashed" =>
        /\ IsSelection(filteredStudents, students, MatchingPositions(students, search))
        /\ \A q \in PagingSearchInputs :
             IsSelection(Filter(students, q), students, MatchingPositions(students, q))
        /\ Filter(students, Empty) = students

\* a query in lower case that some names meet in upper case and others do not
C11_Witness ==
    /\ pc = "running"
    /\ search = <<"a">>
    /\ Len(students) >= 4
    /\ Len(filteredStudents) >= 2
    /\ Len(filteredStudents) < Len(students)
    /\ filteredStudents[1].name = Al

-----------------------------------------------------------------------------
(* C12 *)

\* C12: typing in the search box or pressing Prev or Next leaves the student
\* list, the stored "students" and "darkMode" entries, the edit index and the
\* form as they were; only the query or the page number changes.
C12_SearchAndPagingChangeNothingElse ==
    [][((\E value \in PagingSearchInputs : setSearch(value)) \/ PrevPage \/ NextPage)
         => /\ UNCHANGED <<students, localStorage, editIndex, formData, darkMode, pc>>
            /\ (search' = search \/ currentPage' = currentPage)]_vars

\* back on page 1 of a searched list that still has a second page
C12_Witness ==
    /\ lastEvent = "prev"
    /\ search = <<"a">>
    /\ currentPage = 1
    /\ totalPages = 2
    /\ Len(students) > Len(filteredStudents)

-----------------------------------------------------------------------------
(* C13 *)

\* C13: startup never fails: when the "students" entry is absent or holds text
\* that does not parse, the session starts with the empty list (and darkMode
\* false when its entry is absent or is not "true") and reaches the running
\* state, never an error state.
C13_StartupNeverFails ==
    /\ pc # "crashed"
    /\ pc = "running" => /\ students = <<>>
                         /\ darkMode = prevSession.darkMode

-----------------------------------------------------------------------------
(* C14 *)

\* C14: a delete whose confirmation is declined leaves the student list, the
\* stored list, the edit index, the form and the page as they were.
C14_DeclinedDeleteChangesNothing ==
    [][(lastEvent' = "decline" /\ \E index \in 0..MaxLen : handleDelete(index, FALSE))
         => UNCHANGED <<students, localStorage, editIndex, formData, currentPage,
                        search, darkMode, pc>>]_vars

\* a delete declined while a record of a list of two is being edited
C14_Witness ==
    /\ lastEvent = "decline"
    /\ editIndex # NoIndex
    /\ Len(students) >= 2

-----------------------------------------------------------------------------
(* C15 *)

\* C15: the toggle flips only the flag and the stored "darkMode" text: the
\* list, the content stored under "students", the edit index, the form, the
\* query and the page stay as they were; and no add, update or delete changes
\* the flag or the stored "darkMode" text.
C15_DarkModeIndependent ==
    [][/\ ToggleDarkMode
            => /\ darkMode' = ~darkMode
               /\ localStorage'.darkMode = Item(BooleanToText(darkMode'))
               /\ localStorage'.students = localStorage.students
               /\ UNCHANGED <<students, editIndex, formData, search, currentPage, pc>>
       /\ (handleSubmit
             \/ (lastEvent' = "delete"
                   /\ \E index \in 0..MaxLen : handleDelete(index, TRUE)))
            => /\ darkMode' = darkMode
               /\ localStorage'.darkMode = localStorage.darkMode]_vars

\* a record added to a list after the flag was switched on
C15_Witness ==
    /\ lastEvent = "add"
    /\ darkMode
    /\ localStorage.darkMode = Item(BooleanToText(TRUE))
    /\ Len(students) >= 2

-----------------------------------------------------------------------------
(* C16 *)

\* C16: every index a rendered row passes to handleEdit or handleDelete
\* satisfies 0 <= index < students.length.
C16_RowIndexInRange ==
    pc = "running" =>
        \A index \in RowIndices : 0 <= index /\ index < Len(students)

\* the two rows of the third page of a list of twelve
C16_Witness ==
    /\ pc = "running"
    /\ Len(students) = 12
    /\ currentPage = 3
    /\ RowIndices = {10, 11}

-----------------------------------------------------------------------------
(* C17 *)

\* C17: Edit or Delete on a displayed row acts on the record displayed in that
\* row: the index the row passes is the position, in students, of the record
\* the row shows.
C17_RowActsOnShownRecord ==
    pc = "running" =>
        \A index \in 0..(Len(currentStudents) - 1) :
            At(students, indexOfFirst + index) = currentStudents[index + 1]

-----------------------------------------------------------------------------
(* C18 *)

\* C18: an accepted update replaces the record that was loaded into the form
\* at the edit request: between the request and the submit, no event (a
\* confirmed delete of a row, a search change, a page change) puts another
\* record at the index the submit will write.
C18_EditTargetStable ==
    [][(pc = "running" /\ editIndex # NoIndex /\ editIndex' = editIndex)
         => (At(students', editIndex).kind = "object"
               => At(students', editIndex) = At(students, editIndex))]_vars

-----------------------------------------------------------------------------
(* C19 *)

\* C19: in every reachable state editIndex is null or an index of students,
\* 0 <= editIndex < students.length, also after deletes made while editing.
C19_EditIndexInRange ==
    pc = "running" =>
        \/ editIndex = NoIndex
        \/ (0 <= editIndex /\ editIndex < Len(students))

-----------------------------------------------------------------------------
(* C20 *)

\* C20: startup never overwrites the stored list: in every state of the
\* startup sequence (the load effect, the save effect run with the list still
\* empty, the re-render and the second save) the "students" entry holds the
\* list that was stored before the startup.
C20_StartupKeepsStoredList ==
    ~prevSession.fresh =>
        localStorage.students = Item(JSONstringify(prevSession.students))

====
